---- MODULE Spec2Model ----
(***************************************************************************)
(* The client of the AI RAG chatbot (frontend/src/App.tsx): one App        *)
(* component with its React state, the closures of its last render, the    *)
(* chat and upload requests it has in flight, its notification timers, and *)
(* the backend's per-session transcripts the chat requests are recorded    *)
(* under.  A second App instance (another tab) is present as far as its    *)
(* session id and the turns it sends are concerned.                        *)
(*                                                                         *)
(* A handler reads `input`, `loading`, `useRag` from the render it was     *)
(* created in (the variable `rendered`); functional updates                *)
(* (setMessages(prev => ...)) act on the current state.  Timestamps are    *)
(* not modelled; Date.now() is the variable `clock`.                       *)
(***************************************************************************)
EXTENDS Integers, Sequences, FiniteSets, TLC

VARIABLES
    messages,       \* useState<Message[]>([])
    input,          \* useState('')
    loading,        \* useState(false)
    sessionId,      \* useState(() => `session_${Date.now()}`): the clock value
    uploadedFiles,  \* useState<UploadedFile[]>([])
    uploading,      \* useState(false)
    notification,   \* useState<{type, message} | null>(null)
    useRag,         \* useState(true)
    rendered,       \* the state the last render closed over
    timers,         \* pending setTimeout(() => setNotification(null), 5000)
    chatReqs,       \* POST /api/chat requests not yet settled
    uploadReqs,     \* POST /api/upload requests not yet settled
    sessions,       \* backend: session id -> transcript (sequence of turns)
    clock,          \* Date.now()
    peerSessionId,  \* a second App instance's session id (NoSession: not mounted)
    peerSends,      \* chat requests the second instance has had answered
    sentLog,        \* history: the message of every chat request issued
    overlapped,     \* history: a chat request was issued while one was in flight
    oddToggles,     \* history: the RAG toggle was clicked an odd number of times
    nClears,        \* history: confirmed Clears so far
    nUploads        \* history: handleFileUpload invocations with a file so far

vars == <<messages, input, loading, sessionId, uploadedFiles, uploading,
          notification, useRag, rendered, timers, chatReqs, uploadReqs,
          sessions, clock, peerSessionId, peerSends, sentLog, overlapped,
          oddToggles, nClears, nUploads>>

chatVars    == <<messages, input, loading, chatReqs, sentLog, overlapped>>
ragVars     == <<useRag, oddToggles>>
uploadVars  == <<uploadedFiles, uploading, uploadReqs, nUploads>>
noticeVars  == <<notification, timers>>
backendVars == <<sessions, peerSessionId, peerSends>>

-----------------------------------------------------------------------------
(* Bounds of the model *)

MaxSends == 2
MaxUploads == 2
MaxClears == 1
MaxClock == 1
MaxPeerSends == 1
MaxOps == 2          \* sends, uploads, Clears, peer sends and clock ticks together

-----------------------------------------------------------------------------
(* Values *)

Absent    == "undefined"       \* a string field that is not there
NoSources == <<"undefined">>   \* a sources field that is not there
NoSession == -1

\* Notification messages: a text, and for the upload banner the file's name and
\* the chunk count the template string splices in.
Msg(text) == [text |-> text, file |-> <<>>, chunks |-> 0]
NULL == [type |-> "null", message |-> Msg("")]      \* no banner shown

\* Texts are sequences of characters, so that trim() has something to do.
Whitespace == {" ", "\n"}
Texts == { <<>>, <<" ">>, <<"a">>, <<" ", "b">> }

\* What the backend can answer.
Answers     == { "answer" }
SourceLists == { NoSources, <<>>, <<"chunk">> }   \* response.data.sources
Details     == { Absent, "", "detail" }           \* error.response?.data?.detail

ApologyText == "Sorry, I encountered an error. Please try again."

\* File names, as sequences of characters.
FileNames ==
    { <<"a", ".", "p", "d", "f">>,
      <<"a", ".", "P", "D", "F">>,
      <<"a", ".", "t", "x", "t">>,
      <<"a", ".", "d", "o", "c", "x">>,
      <<"a", ".", "p", "p", "t", "x">>,
      <<"a", ".", "x", "l", "s", "x">>,
      <<"a", ".", "e", "x", "e">>,
      <<"a", ".", "p", "d", "f", ".", "e", "x", "e">>,
      <<"a", ".", "b", ".", "p", "d", "f">>,
      <<"p", "d", "f">>,
      <<"a", ".">> }

FileIds     == { "f1", "f2" }
ChunkCounts == { 0, 3 }
StoredName  == <<"s">>      \* a name the backend may store the file under

-----------------------------------------------------------------------------
(* Pure functions of the source *)

\* String.prototype.trim
RECURSIVE TrimLeft(_)
TrimLeft(s) ==
    IF s # <<>> /\ Head(s) \in Whitespace THEN TrimLeft(Tail(s)) ELSE s

RECURSIVE TrimRight(_)
TrimRight(s) ==
    IF s # <<>> /\ s[Len(s)] \in Whitespace
    THEN TrimRight(SubSeq(s, 1, Len(s) - 1))
    ELSE s

\* faulty variant of Trim: nothing is stripped
Trim_Identity(s) == s

Trim(s) == TrimRight(TrimLeft(s))

\* faulty variant of LastIndexOf: the first occurrence, as indexOf finds it
LastIndexOf_First(s, c) ==
    LET hits == { i \in 1..Len(s) : s[i] = c }
    IN  IF hits = {} THEN -1
        ELSE (CHOOSE i \in hits : \A j \in hits : i <= j) - 1

\* String.prototype.lastIndexOf: 0-based, -1 when c does not occur
LastIndexOf(s, c) ==
    LET hits == { i \in 1..Len(s) : s[i] = c }
    IN  IF hits = {} THEN -1
        ELSE (CHOOSE i \in hits : \A j \in hits : j <= i) - 1

\* String.prototype.substring(start): a negative start counts as 0
Substring(s, start) ==
    LET b == IF start < 0 THEN 0 ELSE IF start > Len(s) THEN Len(s) ELSE start
    IN  SubSeq(s, b + 1, Len(s))

UpperChars == <<"A", "B", "C", "D", "E", "F", "G", "H", "I", "J", "K", "L", "M",
                "N", "O", "P", "Q", "R", "S", "T", "U", "V", "W", "X", "Y", "Z">>
LowerChars == <<"a", "b", "c", "d", "e", "f", "g", "h", "i", "j", "k", "l", "m",
                "n", "o", "p", "q", "r", "s", "t", "u", "v", "w", "x", "y", "z">>

LowerChar(c) ==
    IF \E i \in 1..Len(UpperChars) : UpperChars[i] = c
    THEN LowerChars[CHOOSE i \in 1..Len(UpperChars) : UpperChars[i] = c]
    ELSE c

\* String.prototype.toLowerCase
ToLowerCase(s) == [i \in 1..Len(s) |-> LowerChar(s[i])]

allowedTypes ==
    { <<".", "p", "d", "f">>, <<".", "t", "x", "t">>, <<".", "d", "o", "c", "x">>,
      <<".", "p", "p", "t", "x">>, <<".", "x", "l", "s", "x">> }

fileExt(name) == ToLowerCase(Substring(name, LastIndexOf(name, ".")))

\* faulty variant of OrElse: the fallback whatever the first operand is
OrElse_AlwaysFallback(a, b) == b

\* a || b on values that are absent, the empty string, or a non-empty string
OrElse(a, b) == IF a = Absent \/ a = "" THEN b ELSE a

\* the sequence s without its i-th element
RemoveAt(s, i) == SubSeq(s, 1, i - 1) \o SubSeq(s, i + 1, Len(s))

IsPrefix(s, t) == Len(s) <= Len(t) /\ SubSeq(t, 1, Len(s)) = s

-----------------------------------------------------------------------------
(* Building blocks of the handlers *)

\* faulty variants of AppendMessage: the new message put first; the last
\* message overwritten by the new one
AppendMessage_Prepends(prev, m) == <<m>> \o prev

AppendMessage_Overwrites(prev, m) ==
    IF prev = <<>> THEN <<m>> ELSE [prev EXCEPT ![Len(prev)] = m]

\* setMessages(prev => [...prev, m])
AppendMessage(prev, m) == Append(prev, m)

\* Message contents are texts (user) or the backend's answer (assistant): both
\* are carried as sequences, an answer as a one-element sequence.
userMessage(text) ==
    [id |-> [t |-> clock, suffix |-> ""], role |-> "user", content |-> text,
     sources |-> NoSources]

\* faulty variant of assistantMessage: response.data.sources taken as it
\* comes, without the `|| []`
assistantMessage_RawSources(answer, srcs) ==
    [id |-> [t |-> clock, suffix |-> "_assistant"], role |-> "assistant",
     content |-> <<answer>>, sources |-> srcs]

assistantMessage(answer, srcs) ==
    [id |-> [t |-> clock, suffix |-> "_assistant"], role |-> "assistant",
     content |-> <<answer>>,
     sources |-> IF srcs = NoSources THEN <<>> ELSE srcs]

errorMessage ==
    [id |-> [t |-> clock, suffix |-> "_error"], role |-> "assistant",
     content |-> <<ApologyText>>, sources |-> NoSources]

\* the body of POST /api/chat
chatRequest(text) ==
    [message |-> text, session_id |-> sessionId, use_rag |-> rendered.useRag,
     hung |-> FALSE]

\* showNotification(type, message): set the banner and schedule its dismissal
showNotification(type, message) ==
    /\ notification' = [type |-> type, message |-> message]
    /\ timers' = timers + 1

currentRender ==
    [input |-> input, loading |-> loading, useRag |-> useRag,
     uploading |-> uploading]

\* Session Manager: the user turn and the assistant turn land together
RecordTurns(store, sid, client, question, answer) ==
    [store EXCEPT ![sid] = @ \o << [role |-> "user", content |-> question,
                                    client |-> client],
                                   [role |-> "assistant", content |-> <<answer>>,
                                    client |-> client] >>]

-----------------------------------------------------------------------------
(* Initial state: the App has just been constructed at clock value 0 *)

Init ==
    /\ messages = <<>>
    /\ input = <<>>
    /\ loading = FALSE
    /\ clock = 0
    /\ sessionId = 0
    /\ uploadedFiles = <<>>
    /\ uploading = FALSE
    /\ notification = NULL
    /\ useRag = TRUE
    /\ rendered = [input |-> <<>>, loading |-> FALSE, useRag |-> TRUE,
                   uploading |-> FALSE]
    /\ timers = 0
    /\ chatReqs = <<>>
    /\ uploadReqs = <<>>
    /\ sessions = [s \in 0..MaxClock |-> <<>>]
    /\ peerSessionId = NoSession
    /\ peerSends = 0
    /\ sentLog = <<>>
    /\ overlapped = FALSE
    /\ oddToggles = FALSE
    /\ nClears = 0
    /\ nUploads = 0

\* the operations the model still has room for
WithinBudget ==
    Len(sentLog) + nUploads + nClears + peerSends + clock < MaxOps

-----------------------------------------------------------------------------
(* React commits a render: the handlers and the DOM now reflect the state *)

Render ==
    /\ rendered # currentRender
    /\ rendered' = currentRender
    /\ UNCHANGED <<chatVars, uploadVars, noticeVars, backendVars, sessionId,
                   ragVars, clock, nClears>>

\* the textarea's onChange; the textarea is disabled while loading is rendered
SetInput(text) ==
    /\ ~rendered.loading
    /\ input' = text
    /\ UNCHANGED <<messages, loading, chatReqs, sentLog, overlapped, uploadVars,
                   noticeVars, backendVars, sessionId, ragVars, rendered, clock,
                   nClears>>

\* onClick={() => setUseRag(!useRag)}
ToggleRag ==
    /\ useRag' = ~rendered.useRag
    /\ oddToggles' = ~oddToggles
    /\ UNCHANGED <<chatVars, uploadVars, noticeVars, backendVars, sessionId,
                   rendered, clock, nClears>>

-----------------------------------------------------------------------------
(* handleSendMessage *)

\* if (!input.trim() || loading) return;
SendIgnored ==
    /\ Trim(rendered.input) = <<>> \/ rendered.loading
    /\ UNCHANGED vars

\* the handler up to its await: user message, input cleared, loading, POST
SendIssued ==
    /\ ~(Trim(rendered.input) = <<>> \/ rendered.loading)
    /\ Len(sentLog) < MaxSends
    /\ WithinBudget
    /\ messages' = AppendMessage(messages, userMessage(rendered.input))
    /\ input' = <<>>
    /\ loading' = TRUE
    /\ chatReqs' = Append(chatReqs, chatRequest(rendered.input))
    /\ sentLog' = Append(sentLog, rendered.input)
    /\ overlapped' = (overlapped \/ chatReqs # <<>>)
    /\ UNCHANGED <<uploadVars, noticeVars, backendVars, sessionId, ragVars,
                   rendered, clock, nClears>>

handleSendMessage == SendIgnored \/ SendIssued

\* the backend answers request i, recording the two turns under the request's
\* session id, and the handler resumes after the await
ChatSuccess(i, answer, srcs) ==
    /\ i \in DOMAIN chatReqs
    /\ ~chatReqs[i].hung
    /\ sessions' = RecordTurns(sessions, chatReqs[i].session_id, "app",
                               chatReqs[i].message, answer)
    /\ messages' = AppendMessage(messages, assistantMessage(answer, srcs))
    /\ loading' = FALSE
    /\ chatReqs' = RemoveAt(chatReqs, i)
    /\ UNCHANGED <<input, sentLog, overlapped, uploadVars, noticeVars,
                   peerSessionId, peerSends, sessionId, ragVars, rendered, clock,
                   nClears>>

\* request i fails with error.response?.data?.detail = detail; catch and finally
ChatFailure(i, detail) ==
    /\ i \in DOMAIN chatReqs
    /\ ~chatReqs[i].hung
    /\ showNotification("error", Msg(OrElse(detail, "Failed to send message")))
    /\ messages' = AppendMessage(messages, errorMessage)
    /\ loading' = FALSE
    /\ chatReqs' = RemoveAt(chatReqs, i)
    /\ UNCHANGED <<input, sentLog, overlapped, uploadVars, backendVars,
                   sessionId, ragVars, rendered, clock, nClears>>

\* the backend never replies to request i; axios.post is given no timeout
ChatHang(i) ==
    /\ i \in DOMAIN chatReqs
    /\ ~chatReqs[i].hung
    /\ chatReqs' = [chatReqs EXCEPT ![i].hung = TRUE]
    /\ UNCHANGED <<messages, input, loading, sentLog, overlapped, uploadVars,
                   noticeVars, backendVars, sessionId, ragVars, rendered, clock,
                   nClears>>

-----------------------------------------------------------------------------
(* handleFileUpload; the file input is disabled while uploading is rendered *)

UnsupportedText ==
    "Unsupported file type. Allowed: .pdf, .txt, .docx, .pptx, .xlsx"

\* if (!file) return;
UploadNoFile ==
    /\ ~rendered.uploading
    /\ UNCHANGED vars

\* if (!allowedTypes.includes(fileExt)) { showNotification(...); return; }
UploadRejected(name) ==
    /\ ~rendered.uploading
    /\ nUploads < MaxUploads
    /\ WithinBudget
    /\ fileExt(name) \notin allowedTypes
    /\ showNotification("error", Msg(UnsupportedText))
    /\ nUploads' = nUploads + 1
    /\ UNCHANGED <<chatVars, uploadedFiles, uploading, uploadReqs, backendVars,
                   sessionId, ragVars, rendered, clock, nClears>>

\* setUploading(true) and the POST /api/upload
UploadIssued(name) ==
    /\ ~rendered.uploading
    /\ nUploads < MaxUploads
    /\ WithinBudget
    /\ fileExt(name) \in allowedTypes
    /\ uploading' = TRUE
    /\ uploadReqs' = Append(uploadReqs, name)
    /\ nUploads' = nUploads + 1
    /\ UNCHANGED <<chatVars, uploadedFiles, noticeVars, backendVars, sessionId,
                   ragVars, rendered, clock, nClears>>

handleFileUpload(name) == UploadRejected(name) \/ UploadIssued(name)

\* faulty variant of uploadedFile: the chunk count not taken from the response
uploadedFile_NoChunks(data) ==
    [file_id |-> data.file_id, filename |-> data.filename, chunks_created |-> 0]

uploadedFile(data) ==
    [file_id |-> data.file_id, filename |-> data.filename,
     chunks_created |-> data.chunks_created]

\* what the backend may answer to the upload of `name`
UploadResponses(name) ==
    [file_id : FileIds, filename : {name, StoredName},
     chunks_created : ChunkCounts]

UploadSuccess(i, data) ==
    /\ i \in DOMAIN uploadReqs
    /\ uploadedFiles' = Append(uploadedFiles, uploadedFile(data))
    /\ showNotification("success",
            [text |-> " uploaded successfully!  chunks created.",
             file |-> uploadReqs[i], chunks |-> data.chunks_created])
    /\ uploading' = FALSE
    /\ uploadReqs' = RemoveAt(uploadReqs, i)
    /\ UNCHANGED <<chatVars, nUploads, backendVars, sessionId, ragVars, rendered,
                   clock, nClears>>

UploadFailure(i, detail) ==
    /\ i \in DOMAIN uploadReqs
    /\ showNotification("error", Msg(OrElse(detail, "Upload failed")))
    /\ uploading' = FALSE
    /\ uploadReqs' = RemoveAt(uploadReqs, i)
    /\ UNCHANGED <<chatVars, uploadedFiles, nUploads, backendVars, sessionId,
                   ragVars, rendered, clock, nClears>>

-----------------------------------------------------------------------------
(* handleClearChat *)

\* faulty variant of ClearConfirmed: the list of uploaded files is emptied too
ClearConfirmed_ResetsFiles ==
    /\ nClears < MaxClears
    /\ WithinBudget
    /\ messages' = <<>>
    /\ uploadedFiles' = <<>>
    /\ showNotification("success", Msg("Chat cleared"))
    /\ nClears' = nClears + 1
    /\ UNCHANGED <<input, loading, chatReqs, sentLog, overlapped, uploading,
                   uploadReqs, nUploads, backendVars, sessionId, ragVars,
                   rendered, clock>>

\* window.confirm('Clear all messages?') answered OK
ClearConfirmed ==
    /\ nClears < MaxClears
    /\ WithinBudget
    /\ messages' = <<>>
    /\ showNotification("success", Msg("Chat cleared"))
    /\ nClears' = nClears + 1
    /\ UNCHANGED <<input, loading, chatReqs, sentLog, overlapped, uploadVars,
                   backendVars, sessionId, ragVars, rendered, clock>>

\* window.confirm answered Cancel
ClearDeclined == UNCHANGED vars

handleClearChat == ClearConfirmed \/ ClearDeclined

-----------------------------------------------------------------------------
(* Timers, the clock, and the second App instance *)

\* a timeout scheduled by showNotification fires: setNotification(null).
\* All are set for 5000 ms, so they fire in the order they were scheduled.
TimerFires ==
    /\ timers > 0
    /\ notification' = NULL
    /\ timers' = timers - 1
    /\ UNCHANGED <<chatVars, uploadVars, backendVars, sessionId, ragVars,
                   rendered, clock, nClears>>

\* Date.now() advances
Tick ==
    /\ clock < MaxClock
    /\ WithinBudget
    /\ clock' = clock + 1
    /\ UNCHANGED <<chatVars, uploadVars, noticeVars, backendVars, sessionId,
                   ragVars, rendered, nClears>>

\* another tab constructs its App: useState(() => `session_${Date.now()}`)
MountPeer ==
    /\ peerSessionId = NoSession
    /\ peerSessionId' = clock
    /\ UNCHANGED <<chatVars, uploadVars, noticeVars, sessions, peerSends,
                   sessionId, ragVars, rendered, clock, nClears>>

\* the other tab sends `text` under its session id and is answered
PeerChat(text, answer) ==
    /\ peerSessionId # NoSession
    /\ peerSends < MaxPeerSends
    /\ WithinBudget
    /\ Trim(text) # <<>>
    /\ sessions' = RecordTurns(sessions, peerSessionId, "peer", text, answer)
    /\ peerSends' = peerSends + 1
    /\ UNCHANGED <<chatVars, uploadVars, noticeVars, peerSessionId, sessionId,
                   ragVars, rendered, clock, nClears>>

-----------------------------------------------------------------------------

\* The whole client.  Here the environment draws from the narrow sets; the
\* specifications below widen them for the part of the client they are about.
CoreTexts     == { <<" ">>, <<"a">> }
CoreFileNames == { <<"a", ".", "p", "d", "f">>, <<"a", ".", "e", "x", "e">> }
CoreDetails   == { Absent }
CoreSources   == { <<"chunk">> }
CoreResponses(name) ==
    [file_id : {"f1"}, filename : {name}, chunks_created : {3}]

Next ==
    \/ Render
    \/ \E text \in CoreTexts : SetInput(text)
    \/ ToggleRag
    \/ handleSendMessage
    \/ \E i \in DOMAIN chatReqs, answer \in Answers, srcs \in CoreSources :
            ChatSuccess(i, answer, srcs)
    \/ \E i \in DOMAIN chatReqs, detail \in CoreDetails : ChatFailure(i, detail)
    \/ \E i \in DOMAIN chatReqs : ChatHang(i)
    \/ UploadNoFile
    \/ \E name \in CoreFileNames : handleFileUpload(name)
    \/ \E i \in DOMAIN uploadReqs :
            \E data \in CoreResponses(uploadReqs[i]) : UploadSuccess(i, data)
    \/ \E i \in DOMAIN uploadReqs, detail \in CoreDetails :
            UploadFailure(i, detail)
    \/ handleClearChat
    \/ TimerFires
    \/ Tick
    \/ MountPeer
    \/ \E text \in CoreTexts, answer \in Answers : PeerChat(text, answer)

Spec == Init /\ [][Next]_vars

-----------------------------------------------------------------------------
(* The chat alone: no upload, no second instance, the clock standing still *)

NextChat ==
    \/ Render
    \/ \E text \in Texts : SetInput(text)
    \/ ToggleRag
    \/ handleSendMessage
    \/ \E i \in DOMAIN chatReqs, answer \in Answers, srcs \in SourceLists :
            ChatSuccess(i, answer, srcs)
    \/ \E i \in DOMAIN chatReqs, detail \in Details : ChatFailure(i, detail)
    \/ \E i \in DOMAIN chatReqs : ChatHang(i)
    \/ handleClearChat
    \/ TimerFires

SpecChat == Init /\ [][NextChat]_vars

\* A request the backend has not given up on is eventually answered or fails;
\* React eventually renders; a scheduled timeout eventually fires.  Nothing
\* obliges the backend to reply (ChatHang), and the client sets no timeout.
ChatSettles ==
    \/ \E i \in DOMAIN chatReqs, answer \in Answers, srcs \in SourceLists :
            ChatSuccess(i, answer, srcs)
    \/ \E i \in DOMAIN chatReqs, detail \in Details : ChatFailure(i, detail)

FairChat ==
    /\ SpecChat
    /\ WF_vars(Render)
    /\ WF_vars(TimerFires)
    /\ WF_vars(ChatSettles)

-----------------------------------------------------------------------------
(* The knowledge base alone *)

NextUpload ==
    \/ Render
    \/ UploadNoFile
    \/ \E name \in FileNames : handleFileUpload(name)
    \/ \E i \in DOMAIN uploadReqs :
            \E data \in UploadResponses(uploadReqs[i]) : UploadSuccess(i, data)
    \/ \E i \in DOMAIN uploadReqs, detail \in Details : UploadFailure(i, detail)
    \/ TimerFires

SpecUpload == Init /\ [][NextUpload]_vars

-----------------------------------------------------------------------------
(* Two App instances and the sessions they send under *)

NextTabs ==
    \/ Render
    \/ \E text \in Texts : SetInput(text)
    \/ handleSendMessage
    \/ \E i \in DOMAIN chatReqs, answer \in Answers, srcs \in SourceLists :
            ChatSuccess(i, answer, srcs)
    \/ handleClearChat
    \/ TimerFires
    \/ Tick
    \/ MountPeer
    \/ \E text \in Texts, answer \in Answers : PeerChat(text, answer)

SpecTabs == Init /\ [][NextTabs]_vars

-----------------------------------------------------------------------------
(* Clear and the session *)

\* C1: a confirmed Clear leaves a fresh conversation: the message list is
\* empty and the session the next chat request goes under (sessionId) holds
\* no turn from before the Clear.
C1_ClearStartsFreshConversation ==
    [][ClearConfirmed => (messages' = <<>> /\ sessions'[sessionId'] = <<>>)]_vars

-----------------------------------------------------------------------------
(* The shape of the transcript *)

\* the sends so far were sequential, each settled, and no Clear was confirmed
SequentialRun == nClears = 0 /\ ~overlapped /\ chatReqs = <<>>

\* C2: n sequential, settled sends without a Clear give exactly 2n messages,
\* user then assistant, the k-th user message carrying the k-th sent text.
C2_SequentialTranscript ==
    SequentialRun =>
        /\ Len(messages) = 2 * Len(sentLog)
        /\ \A k \in 1..Len(sentLog) :
              /\ messages[2 * k - 1].role = "user"
              /\ messages[2 * k - 1].content = sentLog[k]
              /\ messages[2 * k].role = "assistant"

C2_TwoSendsSettled ==
    /\ SequentialRun
    /\ Len(sentLog) = 2
    /\ sentLog[1] # sentLog[2]
    /\ messages[2].content = <<ApologyText>>
    /\ messages[4].content # <<ApologyText>>

\* C3: every assistant message is immediately preceded by a user message, and
\* the list does not start with an assistant message.
C3_WellFormedTranscript ==
    \A k \in DOMAIN messages :
        messages[k].role = "assistant" =>
            k > 1 /\ messages[k - 1].role = "user"

-----------------------------------------------------------------------------
(* Settling a chat request *)

\* C4: once loading, the client eventually stops loading, whatever the
\* backend does (answer, error, or no reply at all).
C4_SendEventuallySettles == loading ~> ~loading

\* the last message of a non-empty list
Last(s) == s[Len(s)]

\* what a failed chat request leaves behind, apart from the banner's text:
\* one notification of type error, and one more message, the apology
FailureShown ==
    /\ timers' = timers + 1
    /\ notification'.type = "error"
    /\ Len(messages') = Len(messages) + 1
    /\ Last(messages').role = "assistant"
    /\ Last(messages').content = <<ApologyText>>
    /\ Last(messages').sources = NoSources

\* C5 as stated: the banner carries the backend's detail whenever the failure
\* response has one, the generic text only when it has none.
C5_FailureCarriesAnyDetail ==
    [][\A i \in DOMAIN chatReqs, detail \in Details :
          ChatFailure(i, detail) =>
              /\ FailureShown
              /\ notification'.message =
                    Msg(IF detail # Absent THEN detail
                        ELSE "Failed to send message")]_vars

\* C5 as amended: the banner carries the backend's detail whenever it is a
\* non-empty string, the generic text when it is absent or empty.
C5_FailureReported ==
    [][\A i \in DOMAIN chatReqs, detail \in Details :
          ChatFailure(i, detail) =>
              /\ FailureShown
              /\ notification'.message =
                    Msg(IF detail \notin {Absent, ""} THEN detail
                        ELSE "Failed to send message")]_vars

C5_DetailShown ==
    /\ notification = [type |-> "error", message |-> Msg("detail")]
    /\ chatReqs = <<>>
    /\ messages # <<>>
    /\ Last(messages).content = <<ApologyText>>

-----------------------------------------------------------------------------
(* The knowledge-base list *)

\* C6: uploadedFiles changes only when an upload request succeeds, and then
\* by exactly one entry holding the file_id, filename and chunks_created of
\* the response; a failed upload leaves it as it was and raises an error
\* notification.
C6_UploadAllOrNothing ==
    [][/\ uploadedFiles' # uploadedFiles =>
              \E i \in DOMAIN uploadReqs :
                  \E data \in UploadResponses(uploadReqs[i]) :
                      UploadSuccess(i, data)
       /\ \A i \in DOMAIN uploadReqs :
              \A data \in UploadResponses(uploadReqs[i]) :
                  UploadSuccess(i, data) =>
                      /\ Len(uploadedFiles') = Len(uploadedFiles) + 1
                      /\ IsPrefix(uploadedFiles, uploadedFiles')
                      /\ Last(uploadedFiles').file_id = data.file_id
                      /\ Last(uploadedFiles').filename = data.filename
                      /\ Last(uploadedFiles').chunks_created
                            = data.chunks_created
       /\ \A i \in DOMAIN uploadReqs, detail \in Details :
              UploadFailure(i, detail) =>
                  /\ uploadedFiles' = uploadedFiles
                  /\ notification'.type = "error"
                  /\ timers' = timers + 1]_vars

\* one upload has succeeded, stored under the backend's own name with three
\* chunks, and another has just failed
C6_OneStoredOneFailed ==
    /\ Len(uploadedFiles) = 1
    /\ uploadedFiles[1].filename = StoredName
    /\ uploadedFiles[1].chunks_created = 3
    /\ nUploads = 2
    /\ uploadReqs = <<>>
    /\ notification = [type |-> "error", message |-> Msg("Upload failed")]

\* s ends with e, letter case aside
EndsWithIgnoringCase(s, e) ==
    /\ Len(s) >= Len(e)
    /\ \A k \in 1..Len(e) :
          LowerChar(s[Len(s) - Len(e) + k]) = LowerChar(e[k])

\* the formats the usage guide lists: PDF, TXT, DOCX, PPTX, XLSX
SupportedFormat(name) ==
    \/ EndsWithIgnoringCase(name, <<".", "p", "d", "f">>)
    \/ EndsWithIgnoringCase(name, <<".", "t", "x", "t">>)
    \/ EndsWithIgnoringCase(name, <<".", "d", "o", "c", "x">>)
    \/ EndsWithIgnoringCase(name, <<".", "p", "p", "t", "x">>)
    \/ EndsWithIgnoringCase(name, <<".", "x", "l", "s", "x">>)

\* C7: handleFileUpload on a file of an unsupported format issues no upload
\* request, does not touch uploading or uploadedFiles and shows an error
\* notification; on a file of a supported format it issues exactly one
\* upload request, for that file.
C7_OnlySupportedFormatsUploaded ==
    [][\A name \in FileNames :
          handleFileUpload(name) =>
              IF SupportedFormat(name)
              THEN uploadReqs' = Append(uploadReqs, name)
              ELSE /\ uploadReqs' = uploadReqs
                   /\ uploading' = uploading
                   /\ uploadedFiles' = uploadedFiles
                   /\ notification'.type = "error"
                   /\ timers' = timers + 1]_vars

\* a file was turned away and then a.b.pdf was sent
C7_RejectedThenAccepted ==
    /\ nUploads = 2
    /\ uploadReqs = << <<"a", ".", "b", ".", "p", "d", "f">> >>
    /\ notification = [type |-> "error", message |-> Msg(UnsupportedText)]

-----------------------------------------------------------------------------
(* Sessions *)

\* C8: two App instances never use the same session id, no turn of the
\* other instance is in the session this one sends under, and every chat
\* request of this instance carries its one session id.
C8_SessionsIsolated ==
    /\ peerSessionId # NoSession => peerSessionId # sessionId
    /\ \A k \in DOMAIN sessions[sessionId] :
          sessions[sessionId][k].client = "app"
    /\ \A i \in DOMAIN chatReqs : chatReqs[i].session_id = sessionId

-----------------------------------------------------------------------------
(* RAG mode *)

\* C9: a chat request carries the RAG state displayed when it was sent, a
\* later toggle does not change a request in flight, and every click on the
\* toggle flips the state.
C9_RagModeHonoured ==
    [][/\ SendIssued => Last(chatReqs').use_rag = rendered.useRag
       /\ ToggleRag => /\ chatReqs' = chatReqs
                       /\ useRag' = ~useRag
                       /\ useRag' = ~oddToggles']_vars

-----------------------------------------------------------------------------
(* Append-only transcript *)

\* C10: every step but a confirmed Clear leaves the messages already in the
\* list where they are: the list before the step is a prefix of the list
\* after it.
C10_AppendOnly ==
    [][ClearConfirmed \/ IsPrefix(messages, messages')]_vars

\* a send was answered and a file was sent to the knowledge base
C10_AnsweredAndUploading ==
    /\ Len(messages) = 2
    /\ messages[2].role = "assistant"
    /\ nClears = 0
    /\ uploadReqs # <<>>

-----------------------------------------------------------------------------
(* Citations *)

\* in the list ms, no user message and no apology has a sources field, and
\* every other assistant message has a sources list
CitationsOnAnswersOnly(ms) ==
    \A k \in DOMAIN ms :
        IF ms[k].role = "assistant" /\ ms[k].content # <<ApologyText>>
        THEN ms[k].sources # NoSources
        ELSE ms[k].sources = NoSources

\* C11: no user message has a sources field; every assistant message built
\* from a successful response has a sources list, the empty one when the
\* response carried none; the apology appended on failure has none.
C11_CitationsOnlyOnAssistantTurns ==
    [][/\ CitationsOnAnswersOnly(messages')
       /\ \A i \in DOMAIN chatReqs, answer \in Answers, srcs \in SourceLists :
              ChatSuccess(i, answer, srcs) =>
                  Last(messages').sources
                      = (IF srcs \in {NoSources, <<>>} THEN <<>> ELSE srcs)
       /\ \A i \in DOMAIN chatReqs, detail \in Details :
              ChatFailure(i, detail) => Last(messages').sources = NoSources]_vars

\* an answer without sources, then an answer with one, are in the list
C11_AnswersWithAndWithoutSources ==
    /\ Len(messages) = 4
    /\ messages[1].role = "user"
    /\ messages[2].sources = <<>>
    /\ messages[4].sources = <<"chunk">>

-----------------------------------------------------------------------------
(* Requests in flight *)

\* C12: at most one chat request is in flight: no POST /api/chat is issued
\* while an earlier one has not settled.
C12_OneChatRequestInFlight == Len(chatReqs) <= 1

-----------------------------------------------------------------------------
(* Notifications and their timers *)

\* C13: a displayed notification is dismissed only by the timeout its own
\* showNotification call scheduled: when a timeout fires and takes a banner
\* down, no later timeout is pending (the banner's own is the last scheduled).
C13_DismissedByOwnTimer ==
    [][(TimerFires /\ notification # NULL) => timers = 1]_vars

-----------------------------------------------------------------------------
(* The loading and uploading flags *)

\* C14: loading is true exactly while a chat request is in flight.
C14_LoadingIffInFlight == loading = (chatReqs # <<>>)

\* C15: uploading is true exactly while an upload request is in flight, and
\* at most one upload request is in flight.
C15_UploadingIffOneInFlight ==
    /\ uploading = (uploadReqs # <<>>)
    /\ Len(uploadReqs) <= 1

-----------------------------------------------------------------------------
(* What a send does with its input *)

Blank(s) == \A k \in DOMAIN s : s[k] \in Whitespace

\* the step is the sending branch of handleSendMessage, and it appends one
\* user message with the handler's input as it is, posts that same text, and
\* clears the input
SendsInputAsTyped ==
    /\ messages' = Append(messages, Last(messages'))
    /\ Last(messages').role = "user"
    /\ Last(messages').content = rendered.input
    /\ chatReqs' = Append(chatReqs, Last(chatReqs'))
    /\ Last(chatReqs').message = rendered.input
    /\ input' = <<>>

\* C16: the input and loading meant are those of the render the handler
\* belongs to.  With blank input (empty or whitespace only) a send is the
\* no-op branch and no sending step is possible; with any other input and
\* loading not set, a send is never the no-op branch; with loading set a send
\* is the no-op branch whatever the input; and every sending step appends one
\* user message holding the untrimmed input, posts that same text and clears
\* the input.
C16_SendActsOnNonBlankInputUnlessLoading ==
    /\ [](Blank(rendered.input) => (ENABLED SendIgnored /\ ~ENABLED SendIssued))
    /\ []((~Blank(rendered.input) /\ ~rendered.loading) => ~ENABLED SendIgnored)
    /\ [](rendered.loading => (ENABLED SendIgnored /\ ~ENABLED SendIssued))
    /\ [][SendIssued => (~Blank(rendered.input) /\ SendsInputAsTyped)]_vars

\* C16 as stated: with input that is not blank a send is never a no-op.
C16_NonBlankInputAlwaysSent ==
    ~Blank(rendered.input) => ~ENABLED SendIgnored

C16_UntrimmedSentThenIgnoredWhileLoading ==
    /\ sentLog = << <<" ", "b">> >>
    /\ messages # <<>> /\ messages[1].content = <<" ", "b">>
    /\ chatReqs # <<>> /\ chatReqs[1].message = <<" ", "b">>
    /\ ~Blank(rendered.input)
    /\ rendered.loading

-----------------------------------------------------------------------------
(* Chat state and knowledge-base state *)

\* a step of handleSendMessage (up to its await, or resuming after it) or of
\* handleClearChat
ChatOrClearStep ==
    \/ SendIssued
    \/ \E i \in DOMAIN chatReqs, answer \in Answers, srcs \in SourceLists :
            ChatSuccess(i, answer, srcs)
    \/ \E i \in DOMAIN chatReqs, detail \in Details : ChatFailure(i, detail)
    \/ ClearConfirmed

\* a step of handleFileUpload (up to its await, or resuming after it)
UploadStep ==
    \/ \E name \in FileNames : handleFileUpload(name)
    \/ \E i \in DOMAIN uploadReqs :
            \E data \in UploadResponses(uploadReqs[i]) : UploadSuccess(i, data)
    \/ \E i \in DOMAIN uploadReqs, detail \in Details : UploadFailure(i, detail)

\* C17: chat state and knowledge-base state are independent: no step of
\* handleSendMessage or handleClearChat changes uploadedFiles or uploading,
\* no step of handleFileUpload changes messages, loading or input, and every
\* step leaves the earlier uploadedFiles as a prefix of the later.
C17_ChatAndKnowledgeBaseIndependent ==
    [][/\ ChatOrClearStep => UNCHANGED <<uploadedFiles, uploading>>
       /\ UploadStep => UNCHANGED <<messages, loading, input>>
       /\ IsPrefix(uploadedFiles, uploadedFiles')]_vars

C17_ClearedWithFileUploaded ==
    /\ nClears = 1
    /\ messages = <<>>
    /\ Len(uploadedFiles) = 1

-----------------------------------------------------------------------------
(* Message ids *)

\* C18: the ids of the messages in the list are pairwise distinct.
C18_MessageIdsDistinct ==
    \A j, k \in DOMAIN messages : messages[j].id = messages[k].id => j = k

=============================================================================
